---- MODULE Spec2Model ----
(***************************************************************************)
(* Model of src/kolibri_gnome/kolibri_context.py: KolibriContext and its   *)
(* _KolibriSetupHelper.  Every handler runs to completion on the toolkit's *)
(* event loop; a property assignment synchronously runs the callbacks that *)
(* watch the property, so one action is one handler together with all the  *)
(* callbacks its assignments trigger.  `log` holds, in program order, what  *)
(* the handler that ran last did.                                          *)
(* The URL methods of the context and of KolibriChannelContext are pure     *)
(* functions of the URL and the channel id; they are operators on strings. *)
(***************************************************************************)
EXTENDS Integers, Sequences, FiniteSets, TLC

\* ---- bounds of the model ------------------------------------------------
MaxInit == 2        \* initialize requests issued in one behaviour
MaxCookies == 2     \* cookies in one initialize response
MaxLogin == 1       \* login-token requests outstanding at once
MaxDevInfo == 1     \* device-info requests outstanding at once

\* ---- program constants --------------------------------------------------
SESSION_STATUS_ERROR == 0
SESSION_STATUS_STOPPED == 1
SESSION_STATUS_SETUP == 2
SESSION_STATUS_READY == 3
BAD_REQUEST == 400

\* typing.Optional[str] values of the login token: None, "" and a real token
None == "None"
LoginTokens == {None, "", "tok"}
\* values of the daemon's app-key property: unset (falsy) or set
AppKeys == {"", "key"}
\* HTTP status codes of a device-info response
DeviceInfoStatuses == {200, 399, 400, 500}

VARIABLES
    do_automatic_login,             \* KolibriDaemonManager.do_automatic_login
    is_started,                     \* KolibriDaemonManager "is-started"
    app_key,                        \* KolibriDaemonManager "app-key"
    has_error,                      \* KolibriDaemonManager "has-error"
    session_status,                 \* BaseKolibriContext.session_status
    auth_token,                     \* _KolibriSetupHelper properties
    is_auth_token_ready,
    is_cookie_manager_ready,
    is_kolibri_device_provisioned,
    is_setup_available,
    is_setup_complete,
    cookies_to_add,                 \* _KolibriSetupHelper.__cookies_to_add
    login_pending,                  \* get_login_token calls not yet answered
    next_id,                        \* initialize requests issued so far
    init_pending,                   \* initialize requests not yet answered
    devinfo_pending,                \* device-info requests not yet answered
    clear_pending,                  \* cookie clears not yet finished
    add_pending,                    \* add_cookie calls not yet finished
    cleared_ok,                     \* responses whose clear finished without error
    clear_failed,                   \* responses whose clear finished with an error
    add_failed,                     \* responses with a cookie whose add finished with an error
    log,                            \* what the last handler did, in order
    channel_id                      \* KolibriChannelContext.__channel_id

vars == <<do_automatic_login, is_started, app_key, has_error, session_status,
          auth_token, is_auth_token_ready, is_cookie_manager_ready,
          is_kolibri_device_provisioned, is_setup_available, is_setup_complete,
          cookies_to_add, login_pending, next_id, init_pending, devinfo_pending,
          clear_pending, add_pending, cleared_ok, clear_failed, add_failed,
          log, channel_id>>

\* The state as one record, so that a handler is a composition of steps.
Cur ==
    [do_automatic_login |-> do_automatic_login, is_started |-> is_started,
     app_key |-> app_key, has_error |-> has_error,
     session_status |-> session_status, auth_token |-> auth_token,
     is_auth_token_ready |-> is_auth_token_ready,
     is_cookie_manager_ready |-> is_cookie_manager_ready,
     is_kolibri_device_provisioned |-> is_kolibri_device_provisioned,
     is_setup_available |-> is_setup_available,
     is_setup_complete |-> is_setup_complete,
     cookies_to_add |-> cookies_to_add, login_pending |-> login_pending,
     next_id |-> next_id, init_pending |-> init_pending,
     devinfo_pending |-> devinfo_pending, clear_pending |-> clear_pending,
     add_pending |-> add_pending, cleared_ok |-> cleared_ok,
     clear_failed |-> clear_failed, add_failed |-> add_failed,
     log |-> <<>>]

Commit(w) ==
    /\ do_automatic_login' = w.do_automatic_login
    /\ is_started' = w.is_started
    /\ app_key' = w.app_key
    /\ has_error' = w.has_error
    /\ session_status' = w.session_status
    /\ auth_token' = w.auth_token
    /\ is_auth_token_ready' = w.is_auth_token_ready
    /\ is_cookie_manager_ready' = w.is_cookie_manager_ready
    /\ is_kolibri_device_provisioned' = w.is_kolibri_device_provisioned
    /\ is_setup_available' = w.is_setup_available
    /\ is_setup_complete' = w.is_setup_complete
    /\ cookies_to_add' = w.cookies_to_add
    /\ login_pending' = w.login_pending
    /\ next_id' = w.next_id
    /\ init_pending' = w.init_pending
    /\ devinfo_pending' = w.devinfo_pending
    /\ clear_pending' = w.clear_pending
    /\ add_pending' = w.add_pending
    /\ cleared_ok' = w.cleared_ok
    /\ clear_failed' = w.clear_failed
    /\ add_failed' = w.add_failed
    /\ log' = w.log
    /\ UNCHANGED channel_id

\* The counters stay within the bounds of the model.
InBounds(w) ==
    /\ w.next_id <= MaxInit
    /\ w.login_pending <= MaxLogin
    /\ w.devinfo_pending <= MaxDevInfo

\* ---- the handler log ----------------------------------------------------
Log(w, e) == [w EXCEPT !.log = Append(@, e)]

\* the handler that runs, with the outcome the toolkit hands it: ok for a
\* cookie operation, the HTTP status for a device-info response
Call(w, fn, id, ok, status) ==
    Log(w, [ev |-> "call", fn |-> fn, id |-> id, ok |-> ok, status |-> status])

SetEv(prop, old, new) == [ev |-> "set", prop |-> prop, old |-> old, new |-> new]

\* self.emit(signal): the emission with the status it is made in
Emit(w, signal) ==
    Log(w, [ev |-> "emit", signal |-> signal,
            session_status |-> w.session_status,
            has_error |-> w.has_error,
            is_setup_complete |-> w.is_setup_complete])

\* ---- KolibriContext -----------------------------------------------------
SetSessionStatus(w, v) ==
    Log([w EXCEPT !.session_status = v],
        SetEv("session_status", w.session_status, v))

\* mutant: setup-available is tested before setup-complete
update_session_status_AvailableFirst(w) ==
    IF w.has_error
    THEN SetSessionStatus(w, SESSION_STATUS_ERROR)
    ELSE IF w.is_setup_available
    THEN SetSessionStatus(w, SESSION_STATUS_SETUP)
    ELSE IF w.is_setup_complete
    THEN Emit(SetSessionStatus(w, SESSION_STATUS_READY), "kolibri-ready")
    ELSE SetSessionStatus(w, SESSION_STATUS_STOPPED)

\* mutant: setup-complete is tested before has-error
update_session_status_CompleteFirst(w) ==
    IF w.is_setup_complete
    THEN Emit(SetSessionStatus(w, SESSION_STATUS_READY), "kolibri-ready")
    ELSE IF w.has_error
    THEN SetSessionStatus(w, SESSION_STATUS_ERROR)
    ELSE IF w.is_setup_available
    THEN SetSessionStatus(w, SESSION_STATUS_SETUP)
    ELSE SetSessionStatus(w, SESSION_STATUS_STOPPED)

\* mutant: kolibri-ready is emitted from the SETUP branch
update_session_status_EmitOnSetup(w) ==
    IF w.has_error
    THEN SetSessionStatus(w, SESSION_STATUS_ERROR)
    ELSE IF w.is_setup_complete
    THEN SetSessionStatus(w, SESSION_STATUS_READY)
    ELSE IF w.is_setup_available
    THEN Emit(SetSessionStatus(w, SESSION_STATUS_SETUP), "kolibri-ready")
    ELSE SetSessionStatus(w, SESSION_STATUS_STOPPED)

update_session_status(w) ==
    IF w.has_error
    THEN SetSessionStatus(w, SESSION_STATUS_ERROR)
    ELSE IF w.is_setup_complete
    THEN Emit(SetSessionStatus(w, SESSION_STATUS_READY), "kolibri-ready")
    ELSE IF w.is_setup_available
    THEN SetSessionStatus(w, SESSION_STATUS_SETUP)
    ELSE SetSessionStatus(w, SESSION_STATUS_STOPPED)

\* map_properties([has-error, is-setup-available, is-setup-complete], ...):
\* an assignment to a watched property runs the callback with the current values
SetHasError(w, v) ==
    update_session_status(
        Log([w EXCEPT !.has_error = v], SetEv("has_error", w.has_error, v)))

SetIsSetupAvailable(w, v) ==
    update_session_status(
        Log([w EXCEPT !.is_setup_available = v],
            SetEv("is_setup_available", w.is_setup_available, v)))

SetIsSetupComplete(w, v) ==
    update_session_status(
        Log([w EXCEPT !.is_setup_complete = v],
            SetEv("is_setup_complete", w.is_setup_complete, v)))

\* ---- _KolibriSetupHelper ------------------------------------------------
\* mutant: any() instead of all()
update_is_setup_complete_Any(w) ==
    SetIsSetupComplete(w,
        w.is_cookie_manager_ready \/ w.is_kolibri_device_provisioned)

update_is_setup_complete(w) ==
    SetIsSetupComplete(w,
        w.is_cookie_manager_ready /\ w.is_kolibri_device_provisioned)

\* map_properties([is-cookie-manager-ready, is-kolibri-device-provisioned], ...)
SetIsCookieManagerReady(w, v) ==
    update_is_setup_complete(
        Log([w EXCEPT !.is_cookie_manager_ready = v],
            SetEv("is_cookie_manager_ready", w.is_cookie_manager_ready, v)))

SetIsKolibriDeviceProvisioned(w, v) ==
    update_is_setup_complete(
        Log([w EXCEPT !.is_kolibri_device_provisioned = v],
            SetEv("is_kolibri_device_provisioned",
                  w.is_kolibri_device_provisioned, v)))

SetAuthToken(w, v) ==
    Log([w EXCEPT !.auth_token = v], SetEv("auth_token", w.auth_token, v))

\* if self.props.auth_token: a non-empty string
Truthy(token) == token # None /\ token # ""

\* mutant: "is not None" instead of truthiness
initialize_kolibri_session_NotNone(w) ==
    LET id == w.next_id + 1
        with_token == w.auth_token # None
    IN  Log([w EXCEPT !.next_id = id, !.init_pending = @ \cup {id}],
            [ev |-> "initialize_request", id |-> id,
             auth_token_param |-> with_token,
             auth_token |-> w.auth_token,
             is_started |-> w.is_started, app_key |-> w.app_key,
             is_auth_token_ready |-> w.is_auth_token_ready])

initialize_kolibri_session(w) ==
    LET id == w.next_id + 1
        with_token == Truthy(w.auth_token)
    IN  Log([w EXCEPT !.next_id = id, !.init_pending = @ \cup {id}],
            [ev |-> "initialize_request", id |-> id,
             auth_token_param |-> with_token,
             auth_token |-> w.auth_token,
             is_started |-> w.is_started, app_key |-> w.app_key,
             is_auth_token_ready |-> w.is_auth_token_ready])

\* await_properties([is-started, app-key, is-auth-token-ready], ...): the
\* callback runs when a watched property is assigned and all three are truthy
AwaitInitialize(w) ==
    IF w.is_started /\ w.app_key # "" /\ w.is_auth_token_ready
    THEN initialize_kolibri_session(w)
    ELSE w

SetIsAuthTokenReady(w, v) ==
    AwaitInitialize(
        Log([w EXCEPT !.is_auth_token_ready = v],
            SetEv("is_auth_token_ready", w.is_auth_token_ready, v)))

SetIsStarted(w, v) ==
    AwaitInitialize(
        Log([w EXCEPT !.is_started = v], SetEv("is_started", w.is_started, v)))

SetAppKey(w, v) ==
    AwaitInitialize(
        Log([w EXCEPT !.app_key = v], SetEv("app_key", w.app_key, v)))

GetLoginToken(w) ==
    Log([w EXCEPT !.login_pending = @ + 1], [ev |-> "get_login_token"])

start_session_setup(w) ==
    IF ~w.do_automatic_login
    THEN LET w1 == SetAuthToken(w, None)
             w2 == SetIsAuthTokenReady(w1, TRUE)
             w3 == SetIsSetupAvailable(w2, TRUE)
         IN  SetIsKolibriDeviceProvisioned(w3, TRUE)
    ELSE LET w1 == SetAuthToken(w, None)
             w2 == SetIsAuthTokenReady(w1, FALSE)
             w3 == SetIsSetupAvailable(w2, FALSE)
             w4 == SetIsKolibriDeviceProvisioned(w3, FALSE)
         IN  GetLoginToken(w4)

\* mutant: the cookie flag is not reset
kolibri_daemon_on_dbus_owner_changed_NoReset(w) ==
    start_session_setup(w)

kolibri_daemon_on_dbus_owner_changed(w) ==
    start_session_setup(SetIsCookieManagerReady(w, FALSE))

\* mutant: the token is stored but is_auth_token_ready is not set
kolibri_daemon_on_get_login_token_ready_NoReady(w, login_token) ==
    SetAuthToken(w, login_token)

kolibri_daemon_on_get_login_token_ready(w, login_token) ==
    SetIsAuthTokenReady(SetAuthToken(w, login_token), TRUE)

\* mutant: no early return when the device is known to be provisioned
check_is_kolibri_device_provisioned_NoSkip(w) ==
    LET w1 == Log(w, [ev |-> "check_is_kolibri_device_provisioned"])
    IN  Log([w1 EXCEPT !.devinfo_pending = @ + 1],
            [ev |-> "deviceinfo_request",
             provisioned |-> w1.is_kolibri_device_provisioned])

check_is_kolibri_device_provisioned(w) ==
    LET w1 == Log(w, [ev |-> "check_is_kolibri_device_provisioned"])
    IN  IF w1.is_kolibri_device_provisioned
        THEN w1
        ELSE Log([w1 EXCEPT !.devinfo_pending = @ + 1],
                 [ev |-> "deviceinfo_request",
                  provisioned |-> w1.is_kolibri_device_provisioned])

\* website_data_manager.clear(COOKIES, ..., partial(copy_cookies, soup_message))
RequestClear(w, id, n) ==
    Log([w EXCEPT !.clear_pending = @ \cup {[id |-> id, n |-> n]}],
        [ev |-> "clear_request", id |-> id])

on_kolibri_initialize_api_ready(w, id, n) ==
    LET w1 == SetIsSetupAvailable(w, TRUE)
        w2 == check_is_kolibri_device_provisioned(w1)
    IN  RequestClear(w2, id, n)

\* mutant: <= instead of <
on_kolibri_device_info_api_ready_Le(w, status) ==
    LET w1 == SetIsKolibriDeviceProvisioned(w, status <= BAD_REQUEST)
    IN  IF ~w1.is_kolibri_device_provisioned
        THEN Emit(w1, "open-setup-wizard")
        ELSE w1

\* mutant: the status of the response is not looked at
on_kolibri_device_info_api_ready_AnyStatus(w, status) ==
    SetIsKolibriDeviceProvisioned(w, TRUE)

on_kolibri_device_info_api_ready(w, status) ==
    LET w1 == SetIsKolibriDeviceProvisioned(w, status < BAD_REQUEST)
    IN  IF ~w1.is_kolibri_device_provisioned
        THEN Emit(w1, "open-setup-wizard")
        ELSE w1

\* Soup.cookies_from_response(soup_message): the n cookies of response id
ResponseCookies(id, n) == {<<id, k>> : k \in 1..n}

RECURSIVE AddCookies(_, _, _, _)
AddCookies(w, id, k, n) ==
    IF k > n
    THEN w
    ELSE AddCookies(
            Log([w EXCEPT !.add_pending = @ \cup {<<id, k>>}],
                [ev |-> "add_cookie", cookie |-> <<id, k>>]),
            id, k + 1, n)

copy_cookies_from_soup_message_response(w, id, n) ==
    AddCookies([w EXCEPT !.cookies_to_add = ResponseCookies(id, n)], id, 1, n)

\* mutant: no return after the error is logged
on_website_data_clear_finished_NoReturn(w, id, n, ok) ==
    IF ~ok
    THEN copy_cookies_from_soup_message_response(
            Log([w EXCEPT !.clear_failed = @ \cup {id}],
                [ev |-> "error", what |-> "clearing cookies", id |-> id]),
            id, n)
    ELSE copy_cookies_from_soup_message_response(
            [w EXCEPT !.cleared_ok = @ \cup {id}], id, n)

on_website_data_clear_finished(w, id, n, ok) ==
    IF ~ok
    THEN Log([w EXCEPT !.clear_failed = @ \cup {id}],
             [ev |-> "error", what |-> "clearing cookies", id |-> id])
    ELSE copy_cookies_from_soup_message_response(
            [w EXCEPT !.cleared_ok = @ \cup {id}], id, n)

\* mutant: a failed add is handled like a non-OK device-info response
on_webkit_add_cookie_ready_Wizard(w, cookie, ok) ==
    IF ~ok
    THEN Emit(SetIsKolibriDeviceProvisioned(
                Log([w EXCEPT !.add_failed = @ \cup {cookie[1]}],
                    [ev |-> "error", what |-> "adding cookie",
                     id |-> cookie[1]]),
                FALSE),
              "open-setup-wizard")
    ELSE IF cookie \notin w.cookies_to_add
    THEN Log(w, [ev |-> "KeyError", id |-> cookie[1]])
    ELSE LET w1 == [w EXCEPT !.cookies_to_add = @ \ {cookie}]
         IN  IF Cardinality(w1.cookies_to_add) = 0
             THEN SetIsCookieManagerReady(w1, TRUE)
             ELSE w1

\* mutant: no return after the error is logged
on_webkit_add_cookie_ready_NoReturn(w, cookie, ok) ==
    LET w0 == IF ok
              THEN w
              ELSE Log([w EXCEPT !.add_failed = @ \cup {cookie[1]}],
                       [ev |-> "error", what |-> "adding cookie",
                        id |-> cookie[1]])
    IN  IF cookie \notin w0.cookies_to_add
        THEN Log(w0, [ev |-> "KeyError", id |-> cookie[1]])
        ELSE LET w1 == [w0 EXCEPT !.cookies_to_add = @ \ {cookie}]
             IN  IF Cardinality(w1.cookies_to_add) = 0
                 THEN SetIsCookieManagerReady(w1, TRUE)
                 ELSE w1

on_webkit_add_cookie_ready(w, cookie, ok) ==
    IF ~ok
    THEN Log([w EXCEPT !.add_failed = @ \cup {cookie[1]}],
             [ev |-> "error", what |-> "adding cookie", id |-> cookie[1]])
    ELSE IF cookie \notin w.cookies_to_add
    THEN \* set.remove raises KeyError: the callback ends here
         Log(w, [ev |-> "KeyError", id |-> cookie[1]])
    ELSE LET w1 == [w EXCEPT !.cookies_to_add = @ \ {cookie}]
         IN  IF Cardinality(w1.cookies_to_add) = 0
             THEN SetIsCookieManagerReady(w1, TRUE)
             ELSE w1

\* ---- the state after construction ---------------------------------------
Init ==
    /\ do_automatic_login \in BOOLEAN
    /\ is_started = FALSE
    /\ app_key = ""
    /\ has_error = FALSE
    /\ session_status = SESSION_STATUS_STOPPED
    /\ auth_token = None
    /\ is_auth_token_ready = FALSE
    /\ is_cookie_manager_ready = FALSE
    /\ is_kolibri_device_provisioned = FALSE
    /\ is_setup_available = FALSE
    /\ is_setup_complete = FALSE
    /\ cookies_to_add = {}
    /\ login_pending = 0
    /\ next_id = 0
    /\ init_pending = {}
    /\ devinfo_pending = 0
    /\ clear_pending = {}
    /\ add_pending = {}
    /\ cleared_ok = {}
    /\ clear_failed = {}
    /\ add_failed = {}
    /\ log = <<>>
    /\ channel_id = None           \* a KolibriContext, not restricted

\* ---- actions: one per handler -------------------------------------------
\* KolibriContext.start_session_setup, called by the application
StartSessionSetup ==
    LET w == start_session_setup(Call(Cur, "start_session_setup", 0, TRUE, 0))
    IN  /\ InBounds(w)
        /\ Commit(w)

\* the daemon manager emits dbus-owner-changed
DbusOwnerChanged ==
    LET w == kolibri_daemon_on_dbus_owner_changed(
                Call(Cur, "kolibri_daemon_on_dbus_owner_changed", 0, TRUE, 0))
    IN  /\ InBounds(w)
        /\ Commit(w)

\* the daemon manager assigns its is-started, app-key or has-error property
DaemonIsStarted ==
    \E v \in BOOLEAN :
        LET w == SetIsStarted(Call(Cur, "notify::is-started", 0, TRUE, 0), v)
        IN  /\ InBounds(w)
            /\ Commit(w)

DaemonAppKey ==
    \E v \in AppKeys :
        LET w == SetAppKey(Call(Cur, "notify::app-key", 0, TRUE, 0), v)
        IN  /\ InBounds(w)
            /\ Commit(w)

DaemonHasError ==
    \E v \in BOOLEAN :
        LET w == SetHasError(Call(Cur, "notify::has-error", 0, TRUE, 0), v)
        IN  /\ InBounds(w)
            /\ Commit(w)

\* the daemon manager answers a get_login_token call
GetLoginTokenReady ==
    /\ login_pending > 0
    /\ \E login_token \in LoginTokens :
          LET w == kolibri_daemon_on_get_login_token_ready(
                      [Call(Cur, "kolibri_daemon_on_get_login_token_ready",
                            0, TRUE, 0)
                          EXCEPT !.login_pending = @ - 1],
                      login_token)
          IN  /\ InBounds(w)
              /\ Commit(w)

\* the response to initialize request id arrives, with n cookies
KolibriInitializeApiReady ==
    \E id \in init_pending, n \in 0..MaxCookies :
        LET w == on_kolibri_initialize_api_ready(
                    [Call(Cur, "on_kolibri_initialize_api_ready", id, TRUE, 0)
                        EXCEPT !.init_pending = @ \ {id}],
                    id, n)
        IN  /\ InBounds(w)
            /\ Commit(w)

\* the response to a device-info request arrives
KolibriDeviceInfoApiReady ==
    /\ devinfo_pending > 0
    /\ \E status \in DeviceInfoStatuses :
          LET w == on_kolibri_device_info_api_ready(
                      [Call(Cur, "on_kolibri_device_info_api_ready",
                            0, TRUE, status)
                          EXCEPT !.devinfo_pending = @ - 1],
                      status)
          IN  /\ InBounds(w)
              /\ Commit(w)

\* a cookie clear finishes, with or without an error
WebsiteDataClearFinished ==
    \E op \in clear_pending, ok \in BOOLEAN :
        LET w == on_website_data_clear_finished(
                    [Call(Cur, "on_website_data_clear_finished", op.id, ok, 0)
                        EXCEPT !.clear_pending = @ \ {op}],
                    op.id, op.n, ok)
        IN  /\ InBounds(w)
            /\ Commit(w)

\* an add_cookie call finishes, with or without an error
WebkitAddCookieReady ==
    \E cookie \in add_pending, ok \in BOOLEAN :
        LET w == on_webkit_add_cookie_ready(
                    [Call(Cur, "on_webkit_add_cookie_ready", cookie[1], ok, 0)
                        EXCEPT !.add_pending = @ \ {cookie}],
                    cookie, ok)
        IN  /\ InBounds(w)
            /\ Commit(w)

Next ==
    \/ StartSessionSetup
    \/ DbusOwnerChanged
    \/ DaemonIsStarted
    \/ DaemonAppKey
    \/ DaemonHasError
    \/ GetLoginTokenReady
    \/ KolibriInitializeApiReady
    \/ KolibriDeviceInfoApiReady
    \/ WebsiteDataClearFinished
    \/ WebkitAddCookieReady

Spec == Init /\ [][Next]_vars

\* ---- overlapping device-info requests -----------------------------------
\* The same handlers with two device-info requests outstanding at once; to
\* keep the state space small every initialize response carries one cookie
\* and the daemon reports no error.
MaxOverlap == 2     \* device-info requests outstanding at once

InOverlapBounds(w) ==
    /\ w.next_id <= MaxInit
    /\ w.login_pending <= MaxLogin
    /\ w.devinfo_pending <= MaxOverlap

OverlapStartSessionSetup ==
    LET w == start_session_setup(Call(Cur, "start_session_setup", 0, TRUE, 0))
    IN  /\ InOverlapBounds(w)
        /\ Commit(w)

OverlapDbusOwnerChanged ==
    LET w == kolibri_daemon_on_dbus_owner_changed(
                Call(Cur, "kolibri_daemon_on_dbus_owner_changed", 0, TRUE, 0))
    IN  /\ InOverlapBounds(w)
        /\ Commit(w)

OverlapDaemonIsStarted ==
    \E v \in BOOLEAN :
        LET w == SetIsStarted(Call(Cur, "notify::is-started", 0, TRUE, 0), v)
        IN  /\ InOverlapBounds(w)
            /\ Commit(w)

OverlapDaemonAppKey ==
    \E v \in AppKeys :
        LET w == SetAppKey(Call(Cur, "notify::app-key", 0, TRUE, 0), v)
        IN  /\ InOverlapBounds(w)
            /\ Commit(w)

OverlapGetLoginTokenReady ==
    /\ login_pending > 0
    /\ \E login_token \in LoginTokens :
          LET w == kolibri_daemon_on_get_login_token_ready(
                      [Call(Cur, "kolibri_daemon_on_get_login_token_ready",
                            0, TRUE, 0)
                          EXCEPT !.login_pending = @ - 1],
                      login_token)
          IN  /\ InOverlapBounds(w)
              /\ Commit(w)

OverlapKolibriInitializeApiReady ==
    \E id \in init_pending :
        LET w == on_kolibri_initialize_api_ready(
                    [Call(Cur, "on_kolibri_initialize_api_ready", id, TRUE, 0)
                        EXCEPT !.init_pending = @ \ {id}],
                    id, 1)
        IN  /\ InOverlapBounds(w)
            /\ Commit(w)

OverlapKolibriDeviceInfoApiReady ==
    /\ devinfo_pending > 0
    /\ \E status \in DeviceInfoStatuses :
          LET w == on_kolibri_device_info_api_ready(
                      [Call(Cur, "on_kolibri_device_info_api_ready",
                            0, TRUE, status)
                          EXCEPT !.devinfo_pending = @ - 1],
                      status)
          IN  /\ InOverlapBounds(w)
              /\ Commit(w)

OverlapNext ==
    \/ OverlapStartSessionSetup
    \/ OverlapDbusOwnerChanged
    \/ OverlapDaemonIsStarted
    \/ OverlapDaemonAppKey
    \/ OverlapGetLoginTokenReady
    \/ OverlapKolibriInitializeApiReady
    \/ OverlapKolibriDeviceInfoApiReady
    \/ WebsiteDataClearFinished
    \/ WebkitAddCookieReady

SpecOverlap == Init /\ [][OverlapNext]_vars

\* ---- a session without failures ----------------------------------------
\* start_session_setup is called once, the daemon only reports that it is
\* started and has an app key, no owner change and no daemon error occurs,
\* every initialize response carries at least one cookie, every clear and
\* cookie add succeeds and every device-info response is OK.  The toolkit's
\* main loop delivers every pending completion, hence the weak fairness of
\* the five completion callbacks; nothing forces the application or the
\* daemon to act.
SetupCalled == is_auth_token_ready \/ login_pending > 0

LiveStartSessionSetup ==
    /\ ~SetupCalled
    /\ LET w == start_session_setup(
                    Call(Cur, "start_session_setup", 0, TRUE, 0))
       IN  /\ InBounds(w)
           /\ Commit(w)

LiveDaemonIsStarted ==
    LET w == SetIsStarted(Call(Cur, "notify::is-started", 0, TRUE, 0), TRUE)
    IN  /\ InBounds(w)
        /\ Commit(w)

LiveDaemonAppKey ==
    LET w == SetAppKey(Call(Cur, "notify::app-key", 0, TRUE, 0), "key")
    IN  /\ InBounds(w)
        /\ Commit(w)

LiveKolibriInitializeApiReady ==
    \E id \in init_pending, n \in 1..MaxCookies :
        LET w == on_kolibri_initialize_api_ready(
                    [Call(Cur, "on_kolibri_initialize_api_ready", id, TRUE, 0)
                        EXCEPT !.init_pending = @ \ {id}],
                    id, n)
        IN  /\ InBounds(w)
            /\ Commit(w)

LiveKolibriDeviceInfoApiReady ==
    /\ devinfo_pending > 0
    /\ \E status \in {s \in DeviceInfoStatuses : s < BAD_REQUEST} :
          LET w == on_kolibri_device_info_api_ready(
                      [Call(Cur, "on_kolibri_device_info_api_ready",
                            0, TRUE, status)
                          EXCEPT !.devinfo_pending = @ - 1],
                      status)
          IN  /\ InBounds(w)
              /\ Commit(w)

LiveWebsiteDataClearFinished ==
    \E op \in clear_pending :
        LET w == on_website_data_clear_finished(
                    [Call(Cur, "on_website_data_clear_finished",
                          op.id, TRUE, 0)
                        EXCEPT !.clear_pending = @ \ {op}],
                    op.id, op.n, TRUE)
        IN  /\ InBounds(w)
            /\ Commit(w)

LiveWebkitAddCookieReady ==
    \E cookie \in add_pending :
        LET w == on_webkit_add_cookie_ready(
                    [Call(Cur, "on_webkit_add_cookie_ready",
                          cookie[1], TRUE, 0)
                        EXCEPT !.add_pending = @ \ {cookie}],
                    cookie, TRUE)
        IN  /\ InBounds(w)
            /\ Commit(w)

LiveNext ==
    \/ LiveStartSessionSetup
    \/ LiveDaemonIsStarted
    \/ LiveDaemonAppKey
    \/ GetLoginTokenReady
    \/ LiveKolibriInitializeApiReady
    \/ LiveKolibriDeviceInfoApiReady
    \/ LiveWebsiteDataClearFinished
    \/ LiveWebkitAddCookieReady

SpecLive ==
    /\ Init
    /\ [][LiveNext]_vars
    /\ WF_vars(GetLoginTokenReady)
    /\ WF_vars(LiveKolibriInitializeApiReady)
    /\ WF_vars(LiveKolibriDeviceInfoApiReady)
    /\ WF_vars(LiveWebsiteDataClearFinished)
    /\ WF_vars(LiveWebkitAddCookieReady)

\* ---- URLs ---------------------------------------------------------------
\* A str is a TLC string; Len, \o and SubSeq work on it character by
\* character.  A URL is given as the fields of urlsplit(url).
LEARN_PATH_PREFIX == "/learn/#/"

\* re's \w, for ASCII text
WordChars ==
    {"a", "b", "c", "d", "e", "f", "g", "h", "i", "j", "k", "l", "m", "n",
     "o", "p", "q", "r", "s", "t", "u", "v", "w", "x", "y", "z",
     "A", "B", "C", "D", "E", "F", "G", "H", "I", "J", "K", "L", "M", "N",
     "O", "P", "Q", "R", "S", "T", "U", "V", "W", "X", "Y", "Z",
     "0", "1", "2", "3", "4", "5", "6", "7", "8", "9", "_"}

\* s[i:i+1]: the character at position i, "" past the end
CharAt(s, i) == IF i \in 1..Len(s) THEN SubSeq(s, i, i) ELSE ""

\* str.startswith
startswith(s, prefix) ==
    Len(s) >= Len(prefix) /\ SubSeq(s, 1, Len(prefix)) = prefix

\* str.lstrip(c) for a single character c
RECURSIVE lstrip(_, _)
lstrip(s, c) ==
    IF startswith(s, c) THEN lstrip(SubSeq(s, 2, Len(s)), c) ELSE s

\* position of the first c in s at or after i, 0 when there is none
RECURSIVE find(_, _, _)
find(s, c, i) ==
    IF i > Len(s) THEN 0
    ELSE IF CharAt(s, i) = c THEN i
    ELSE find(s, c, i + 1)

\* str.partition(c)
partition(s, c) ==
    LET i == find(s, c, 1)
    IN  IF i = 0
        THEN <<s, "", "">>
        ELSE <<SubSeq(s, 1, i - 1), c, SubSeq(s, i + 1, Len(s))>>

\* str.split(c)
RECURSIVE split(_, _)
split(s, c) ==
    LET i == find(s, c, 1)
    IN  IF i = 0
        THEN <<s>>
        ELSE <<SubSeq(s, 1, i - 1)>> \o split(SubSeq(s, i + 1, Len(s)), c)

\* sep.join(strs)
RECURSIVE join(_, _)
join(sep, strs) ==
    IF Len(strs) = 0 THEN ""
    ELSE IF Len(strs) = 1 THEN strs[1]
    ELSE strs[1] \o sep \o join(sep, Tail(strs))

\* s occurs in t (Python's  s in t)
Contains(t, s) ==
    \E i \in 1..(Len(t) - Len(s) + 1) : SubSeq(t, i, i + Len(s) - 1) = s

\* the number of leading characters of s, from position i on, that are in cs:
\* what a greedy [cs]* consumes
RECURSIVE Span(_, _, _)
Span(s, cs, i) ==
    IF i <= Len(s) /\ CharAt(s, i) \in cs THEN 1 + Span(s, cs, i + 1) ELSE 0

\* the strings left after the optional group (?P<lang>[\w\-]+\/)? at the
\* start of s: s itself, and the rest when the group matches
AfterLang(s) ==
    LET n == Span(s, WordChars \cup {"-"}, 1)
    IN  {s} \cup (IF n > 0 /\ CharAt(s, n + 1) = "/"
                  THEN {SubSeq(s, n + 2, Len(s))}
                  ELSE {})

\* re.match(STATIC_PATHS_RE, url_path) succeeds
STATIC_PATHS_RE(url_path) ==
    \E word \in {"app", "static", "downloadcontent", "content/storage",
                 "content/static", "content/zipcontent"} :
        startswith(url_path, word)

\* re.match(SYSTEM_PATHS_RE, url_path) succeeds
SYSTEM_PATHS_RE(url_path) ==
    \E rest \in AfterLang(url_path) :
        \E word \in {"user", "logout", "redirectuser", "learn/app"} :
            startswith(rest, word)

\* re.match(CONTENT_PATHS_RE, url_path) succeeds
CONTENT_PATHS_RE(url_path) ==
    \E rest \in AfterLang(url_path) : startswith(rest, "learn")

\* urllib.parse.unquote_plus, for text without percent escapes
RECURSIVE unquote_plus(_)
unquote_plus(s) ==
    IF Len(s) = 0 THEN ""
    ELSE (IF CharAt(s, 1) = "+" THEN " " ELSE CharAt(s, 1))
            \o unquote_plus(SubSeq(s, 2, Len(s)))

QuoteChar(c) ==
    IF c \in WordChars \cup {".", "-", "~"} THEN c
    ELSE CASE c = " " -> "+"
           [] c = "+" -> "%2B"
           [] c = "/" -> "%2F"
           [] c = "&" -> "%26"
           [] c = "=" -> "%3D"
           [] c = "?" -> "%3F"
           [] c = "#" -> "%23"

\* urllib.parse.quote_plus
RECURSIVE quote_plus(_)
quote_plus(s) ==
    IF Len(s) = 0 THEN ""
    ELSE QuoteChar(CharAt(s, 1)) \o quote_plus(SubSeq(s, 2, Len(s)))

\* urllib.parse.urlencode of a dict given as a sequence of <<key, value>>
urlencode(query) ==
    join("&", [i \in DOMAIN query |->
                  quote_plus(query[i][1]) \o "=" \o quote_plus(query[i][2])])

\* urllib.parse.parse_qsl(query, keep_blank_values=True): the <<name, value>>
\* pairs of the query string, in order
parse_qsl(query) ==
    LET fields == SelectSeq(split(query, "&"), LAMBDA f : Len(f) > 0)
    IN  [i \in DOMAIN fields |->
            LET nv == partition(fields[i], "=")
            IN  <<unquote_plus(nv[1]), unquote_plus(nv[3])>>]

\* parse_qs(query, keep_blank_values=True).get(name, [])
QueryValues(query, name) ==
    LET pairs == SelectSeq(parse_qsl(query), LAMBDA p : p[1] = name)
    IN  [i \in DOMAIN pairs |-> pairs[i][2]]

get_kolibri_content_path(node_id, search) ==
    IF Truthy(search)
    THEN LEARN_PATH_PREFIX \o "topics/c/" \o node_id \o "?"
            \o urlencode(<< <<"keywords", search>>,
                            <<"last", "TOPICS_TOPIC_SEARCH">> >>)
    ELSE LEARN_PATH_PREFIX \o "topics/c/" \o node_id

get_kolibri_topic_path(node_id, search) ==
    IF Truthy(search)
    THEN LEARN_PATH_PREFIX \o "topics/t/" \o node_id \o "/search?"
            \o urlencode(<< <<"keywords", search>> >>)
    ELSE LEARN_PATH_PREFIX \o "topics/t/" \o node_id

\* BaseKolibriContext._get_kolibri_library_path
BaseKolibriContext_get_kolibri_library_path(search) ==
    IF Truthy(search)
    THEN LEARN_PATH_PREFIX \o "library?"
            \o urlencode(<< <<"keywords", search>> >>)
    ELSE LEARN_PATH_PREFIX \o "home"

\* KolibriChannelContext.__default_path
default_path(channel) == LEARN_PATH_PREFIX \o "topics/t/" \o channel

\* KolibriChannelContext._get_kolibri_library_path
KolibriChannelContext_get_kolibri_library_path(channel, search) ==
    IF Truthy(search)
    THEN default_path(channel) \o "/search?"
            \o urlencode(<< <<"keywords", search>> >>)
    ELSE default_path(channel)

\* self._get_kolibri_library_path: channel is None for a KolibriContext
get_kolibri_library_path(channel, search) ==
    IF channel = None
    THEN BaseKolibriContext_get_kolibri_library_path(search)
    ELSE KolibriChannelContext_get_kolibri_library_path(channel, search)

parse_kolibri_url_tuple(channel, path, query) ==
    LET url_path == lstrip(path, "/")
        url_search == join(" ", QueryValues(query, "search"))
        parts == partition(url_path, "/")
        node_type == parts[1]
        node_id == parts[3]
    IN  IF node_type = "c"
        THEN get_kolibri_content_path(node_id, url_search)
        ELSE IF node_type = "t"
        THEN get_kolibri_topic_path(node_id, None)
        ELSE get_kolibri_library_path(channel, url_search)

\* daemon_scope is the answer of KolibriDaemonManager.is_url_in_scope(url):
\* the URL is on the daemon's origin
is_url_for_kolibri_app(daemon_scope, path) ==
    IF ~daemon_scope
    THEN FALSE
    ELSE LET url_path == lstrip(path, "/")
         IN  ~(startswith(url_path, "static/")
                 \/ startswith(url_path, "content/storage/"))

\* the node id matched by ^topics\/([ct]\/)?(?P<node_id>\w+), or None
contentnode_id_for_learn_fragment(fragment) ==
    IF ~startswith(fragment, "topics/")
    THEN None
    ELSE LET rest == SubSeq(fragment, 8, Len(fragment))
             after == SubSeq(rest, 3, Len(rest))
         IN  IF /\ startswith(rest, "c/") \/ startswith(rest, "t/")
                /\ Span(after, WordChars, 1) > 0
             THEN SubSeq(after, 1, Span(after, WordChars, 1))
             ELSE IF Span(rest, WordChars, 1) > 0
             THEN SubSeq(rest, 1, Span(rest, WordChars, 1))
             ELSE None

\* mutant: the content API is asked also for the channel's own node
is_learn_fragment_in_channel_AlwaysLookup(channel, fragment, response) ==
    LET f == lstrip(fragment, "/")
        contentnode_id == contentnode_id_for_learn_fragment(f)
    IN  IF startswith(f, "content-unavailable") \/ startswith(f, "search")
        THEN [result |-> TRUE, lookup |-> FALSE, requests |-> <<>>]
        ELSE IF contentnode_id = None
        THEN [result |-> FALSE, lookup |-> FALSE, requests |-> <<>>]
        ELSE IF ~response.is_dict
        THEN [result |-> FALSE, lookup |-> TRUE,
              requests |-> <<contentnode_id>>]
        ELSE [result |-> response.channel_id = channel, lookup |-> TRUE,
              requests |-> <<contentnode_id>>]

\* mutant: an answer that is not a dict counts as in the channel
is_learn_fragment_in_channel_NonDictInScope(channel, fragment, response) ==
    LET f == lstrip(fragment, "/")
        contentnode_id == contentnode_id_for_learn_fragment(f)
    IN  IF startswith(f, "content-unavailable") \/ startswith(f, "search")
        THEN [result |-> TRUE, lookup |-> FALSE, requests |-> <<>>]
        ELSE IF contentnode_id = None
        THEN [result |-> FALSE, lookup |-> FALSE, requests |-> <<>>]
        ELSE IF contentnode_id = channel
        THEN [result |-> TRUE, lookup |-> FALSE, requests |-> <<>>]
        ELSE [result |-> (~response.is_dict
                             \/ response.channel_id = channel),
              lookup |-> TRUE,
              requests |-> <<contentnode_id>>]

\* response is what kolibri_api_get returns for the node, were it asked;
\* lookup tells whether it was asked and requests lists the nodes asked for
is_learn_fragment_in_channel(channel, fragment, response) ==
    LET f == lstrip(fragment, "/")
        contentnode_id == contentnode_id_for_learn_fragment(f)
    IN  IF startswith(f, "content-unavailable") \/ startswith(f, "search")
        THEN [result |-> TRUE, lookup |-> FALSE, requests |-> <<>>]
        ELSE IF contentnode_id = None
        THEN [result |-> FALSE, lookup |-> FALSE, requests |-> <<>>]
        ELSE IF contentnode_id = channel
        THEN [result |-> TRUE, lookup |-> FALSE, requests |-> <<>>]
        ELSE IF ~response.is_dict
        THEN [result |-> FALSE, lookup |-> TRUE,
              requests |-> <<contentnode_id>>]
        ELSE [result |-> response.channel_id = channel, lookup |-> TRUE,
              requests |-> <<contentnode_id>>]

KolibriChannelContext_is_url_in_scope(channel, daemon_scope, path, fragment, response) ==
    IF ~is_url_for_kolibri_app(daemon_scope, path)
    THEN [result |-> FALSE, lookup |-> FALSE, requests |-> <<>>]
    ELSE LET url_path == lstrip(path, "/")
         IN  IF STATIC_PATHS_RE(url_path)
             THEN [result |-> TRUE, lookup |-> FALSE, requests |-> <<>>]
             ELSE IF SYSTEM_PATHS_RE(url_path)
             THEN [result |-> TRUE, lookup |-> FALSE, requests |-> <<>>]
             ELSE IF CONTENT_PATHS_RE(url_path)
             THEN is_learn_fragment_in_channel(channel, fragment, response)
             ELSE [result |-> FALSE, lookup |-> FALSE, requests |-> <<>>]

\* self.is_url_in_scope: channel is None for a KolibriContext
is_url_in_scope(channel, daemon_scope, path, fragment, response) ==
    IF channel = None
    THEN [result |-> is_url_for_kolibri_app(daemon_scope, path),
          lookup |-> FALSE, requests |-> <<>>]
    ELSE KolibriChannelContext_is_url_in_scope(channel, daemon_scope, path,
                                               fragment, response)

\* kolibri_app.config.APP_URI_SCHEME
APP_URI_SCHEME == "x-kolibri-app"

\* position of the first character of s at or after i that is in cs, 0 when
\* there is none
RECURSIVE FindAny(_, _, _)
FindAny(s, cs, i) ==
    IF i > Len(s) THEN 0
    ELSE IF CharAt(s, i) \in cs THEN i
    ELSE FindAny(s, cs, i + 1)

\* str.lower, for ASCII text
RECURSIVE lower(_)
lower(s) ==
    IF Len(s) = 0 THEN ""
    ELSE LET i == find("ABCDEFGHIJKLMNOPQRSTUVWXYZ", CharAt(s, 1), 1)
         IN  (IF i = 0
              THEN CharAt(s, 1)
              ELSE CharAt("abcdefghijklmnopqrstuvwxyz", i))
                \o lower(SubSeq(s, 2, Len(s)))

\* urllib.parse.scheme_chars
SchemeChars == (WordChars \ {"_"}) \cup {"+", "-", "."}

\* urllib.parse.urlsplit: scheme up to the first colon, netloc after "//" up
\* to the next "/", "?" or "#", then fragment and query cut off the path
urlsplit(url) ==
    LET colon == find(url, ":", 1)
        has_scheme ==
            /\ colon > 1
            /\ CharAt(url, 1) \in WordChars \ {"_", "0", "1", "2", "3", "4",
                                               "5", "6", "7", "8", "9"}
            /\ \A i \in 1..(colon - 1) : CharAt(url, i) \in SchemeChars
        scheme == IF has_scheme THEN lower(SubSeq(url, 1, colon - 1)) ELSE ""
        url1 == IF has_scheme THEN SubSeq(url, colon + 1, Len(url)) ELSE url
        has_netloc == startswith(url1, "//")
        delim == LET i == FindAny(url1, {"/", "?", "#"}, 3)
                 IN  IF i = 0 THEN Len(url1) + 1 ELSE i
        netloc == IF has_netloc THEN SubSeq(url1, 3, delim - 1) ELSE ""
        url2 == IF has_netloc THEN SubSeq(url1, delim, Len(url1)) ELSE url1
        hash == find(url2, "#", 1)
        fragment == IF hash = 0 THEN "" ELSE SubSeq(url2, hash + 1, Len(url2))
        url3 == IF hash = 0 THEN url2 ELSE SubSeq(url2, 1, hash - 1)
        mark == find(url3, "?", 1)
        query == IF mark = 0 THEN "" ELSE SubSeq(url3, mark + 1, Len(url3))
        path == IF mark = 0 THEN url3 ELSE SubSeq(url3, 1, mark - 1)
    IN  [scheme |-> scheme, netloc |-> netloc, path |-> path,
         query |-> query, fragment |-> fragment]

\* urllib.parse.uses_netloc
uses_netloc ==
    {"", "ftp", "http", "gopher", "nntp", "telnet", "imap", "wais", "file",
     "mms", "https", "shttp", "snews", "prospero", "rtsp", "rtspu", "rsync",
     "svn", "svn+ssh", "sftp", "nfs", "git", "git+ssh", "ws", "wss"}

\* SplitResult.geturl: urllib.parse.urlunsplit
geturl(url_tuple) ==
    LET authority ==
            \/ url_tuple.netloc # ""
            \/ /\ url_tuple.scheme # ""
               /\ url_tuple.scheme \in uses_netloc
               /\ ~startswith(url_tuple.path, "//")
        rooted == IF url_tuple.path # "" /\ ~startswith(url_tuple.path, "/")
                  THEN "/" \o url_tuple.path
                  ELSE url_tuple.path
        url1 == IF authority
                THEN "//" \o url_tuple.netloc \o rooted
                ELSE url_tuple.path
        url2 == IF url_tuple.scheme # ""
                THEN url_tuple.scheme \o ":" \o url1
                ELSE url1
        url3 == IF url_tuple.query # ""
                THEN url2 \o "?" \o url_tuple.query
                ELSE url2
    IN  IF url_tuple.fragment # ""
        THEN url3 \o "#" \o url_tuple.fragment
        ELSE url3

\* mutant: only the scheme is replaced, the host and port stay
url_to_x_kolibri_app_KeepNetloc(url) ==
    geturl([urlsplit(url) EXCEPT !.scheme = APP_URI_SCHEME])

url_to_x_kolibri_app(url) ==
    geturl([urlsplit(url) EXCEPT !.scheme = APP_URI_SCHEME, !.netloc = ""])

\* KolibriContext.default_url, overridden by KolibriChannelContext
default_url(channel) ==
    IF channel = None
    THEN APP_URI_SCHEME \o ":/"
    ELSE APP_URI_SCHEME \o ":" \o default_path(channel)

\* emitted lists the signals sent, returned is the value returned
BaseKolibriContext_open_external_url(daemon_scope, url) ==
    IF is_url_for_kolibri_app(daemon_scope, urlsplit(url).path)
    THEN [emitted |-> <<[signal |-> "open-external-url",
                         url |-> url_to_x_kolibri_app(url)]>>,
          returned |-> None]
    ELSE [emitted |-> <<[signal |-> "open-external-url", url |-> url]>>,
          returned |-> None]

KolibriChannelContext_open_external_url(channel, daemon_scope, url) ==
    IF is_url_for_kolibri_app(daemon_scope, urlsplit(url).path)
    THEN [emitted |-> <<>>, returned |-> default_url(channel)]
    ELSE BaseKolibriContext_open_external_url(daemon_scope, url)

\* self.open_external_url: channel is None for a KolibriContext
open_external_url(channel, daemon_scope, url) ==
    IF channel = None
    THEN BaseKolibriContext_open_external_url(daemon_scope, url)
    ELSE KolibriChannelContext_open_external_url(channel, daemon_scope, url)

\* ---- the URLs given to the context ---------------------------------------
ChannelIds == {"c1", "c2"}
NodeIds == {"n1", "c1"}
SearchTerms == {"a", "a b"}

\* paths of kolibri: URLs
KolibriPaths ==
    {"", "/", "c", "t", "c/", "t/", "x", "x/n1", "T/n1", "n1"}
        \cup {kind \o "/" \o node : kind \in {"t", "c", "/t", "/c"},
                                    node \in NodeIds}

\* query strings of kolibri: URLs
KolibriQueries ==
    {"", "search=", "q=a", "search=a&search=b"}
        \cup {"search=" \o quote_plus(term) : term \in SearchTerms}

\* paths of http: URLs
AppPaths ==
    {"", "/", "/app/x", "/application", "/static", "/static/x", "/staticx",
     "/downloadcontent/f", "/content/storage/f", "/content/storage",
     "/content/static/f", "/content/zipcontent/f", "/content/x",
     "/user/", "/en/user/", "/logout", "/redirectuser", "/learn/app",
     "/en/learn/app", "/learn/", "/learn", "/en/learn/", "/pt-br/learn/",
     "/learning", "/api/x", "/en/api/x", "/device", "/en/x/learn/"}

\* fragments of http: URLs
Fragments ==
    {"", "/", "/home", "/library", "/search", "/search?keywords=a",
     "/content-unavailable", "/topics", "/topics/", "/topics/t/",
     "/topics/t/n1/search?keywords=a"}
        \cup {"/topics/" \o kind \o node : kind \in {"", "t/", "c/"},
                                           node \in NodeIds \cup ChannelIds}

\* answers of the content API: a dict with or without a channel_id, or
\* something that is not a dict
ApiResponses ==
    {[is_dict |-> FALSE, channel_id |-> None]}
        \cup {[is_dict |-> TRUE, channel_id |-> c] :
                 c \in ChannelIds \cup {None}}

\* URLs given to open_external_url
OpenUrls ==
    {origin \o rest :
        origin \in {"http://h:8080", "https://example.org"},
        rest \in {"", "/", "/learn/#/topics/t/n1", "/learn/?a=b#/home",
                  "/en/user/", "/static/x.js", "/content/storage/f.pdf",
                  "/learn/#", "/a?", "?x=1", "//x"}}
        \cup {"mailto:a@b", "kolibri:t/n1?search=a", "x-kolibri-app:/learn/",
              "/learn/x", "HTTP://H:8080/x"}

\* the calls made: the method and its arguments
ParseCalls ==
    {[ev |-> "call", fn |-> "parse_kolibri_url_tuple",
      path |-> path, query |-> query] :
        path \in KolibriPaths, query \in KolibriQueries}

ScopeCalls ==
    {[ev |-> "call", fn |-> "is_url_in_scope",
      daemon_scope |-> daemon_scope, path |-> path, fragment |-> fragment,
      response |-> response] :
        daemon_scope \in BOOLEAN, path \in AppPaths, fragment \in Fragments,
        response \in ApiResponses}

OpenCalls ==
    {[ev |-> "call", fn |-> "open_external_url",
      daemon_scope |-> daemon_scope, url |-> url] :
        daemon_scope \in BOOLEAN, url \in OpenUrls}

\* a context is constructed with or without a channel and one of its URL
\* methods is called
UrlInit ==
    /\ channel_id \in {None} \cup ChannelIds
    /\ do_automatic_login \in BOOLEAN
    /\ is_started = FALSE
    /\ app_key = ""
    /\ has_error = FALSE
    /\ session_status = SESSION_STATUS_STOPPED
    /\ auth_token = None
    /\ is_auth_token_ready = FALSE
    /\ is_cookie_manager_ready = FALSE
    /\ is_kolibri_device_provisioned = FALSE
    /\ is_setup_available = FALSE
    /\ is_setup_complete = FALSE
    /\ cookies_to_add = {}
    /\ login_pending = 0
    /\ next_id = 0
    /\ init_pending = {}
    /\ devinfo_pending = 0
    /\ clear_pending = {}
    /\ add_pending = {}
    /\ cleared_ok = {}
    /\ clear_failed = {}
    /\ add_failed = {}
    /\ \E call \in ParseCalls \cup ScopeCalls \cup OpenCalls : log = <<call>>

\* what a URL method leaves alone: everything but the log of the call
context_vars ==
    <<do_automatic_login, is_started, app_key, has_error, session_status,
      auth_token, is_auth_token_ready, is_cookie_manager_ready,
      is_kolibri_device_provisioned, is_setup_available, is_setup_complete,
      cookies_to_add, login_pending, next_id, init_pending, devinfo_pending,
      clear_pending, add_pending, cleared_ok, clear_failed, add_failed,
      channel_id>>

\* the method runs and returns
ParseKolibriUrlTuple ==
    /\ Len(log) = 1
    /\ log[1].fn = "parse_kolibri_url_tuple"
    /\ log' = Append(log,
                 [ev |-> "return",
                  result |-> parse_kolibri_url_tuple(channel_id, log[1].path,
                                                     log[1].query)])
    /\ UNCHANGED context_vars

IsUrlInScope ==
    /\ Len(log) = 1
    /\ log[1].fn = "is_url_in_scope"
    /\ LET r == is_url_in_scope(channel_id, log[1].daemon_scope, log[1].path,
                                log[1].fragment, log[1].response)
       IN  log' = Append(log, [ev |-> "return", result |-> r.result,
                               lookup |-> r.lookup,
                               requests |-> r.requests])
    /\ UNCHANGED context_vars

OpenExternalUrl ==
    /\ Len(log) = 1
    /\ log[1].fn = "open_external_url"
    /\ LET r == open_external_url(channel_id, log[1].daemon_scope, log[1].url)
       IN  log' = Append(log, [ev |-> "return", emitted |-> r.emitted,
                               returned |-> r.returned])
    /\ UNCHANGED context_vars

UrlNext ==
    \/ ParseKolibriUrlTuple
    \/ IsUrlInScope
    \/ OpenExternalUrl

SpecUrl == UrlInit /\ [][UrlNext]_vars

\* ---- reading the handler log --------------------------------------------
\* the handler that ran last ("" before the first one)
Handler == IF Len(log) = 0 THEN "" ELSE log[1].fn

IsSet(e, prop) == e.ev = "set" /\ e.prop = prop

IsEmit(e, signal) == e.ev = "emit" /\ e.signal = signal

Emissions(signal) == {i \in DOMAIN log : IsEmit(log[i], signal)}

\* the last handler was a cookie clear or a cookie add that ended in an error
CookieFailure ==
    /\ Handler \in {"on_website_data_clear_finished",
                    "on_webkit_add_cookie_ready"}
    /\ ~log[1].ok

\* the last handler was a device-info response with a non-OK status
DeviceInfoNotOk ==
    /\ Handler = "on_kolibri_device_info_api_ready"
    /\ log[1].status >= BAD_REQUEST

\* every cookie of response id has been added with success
AllAdded(id) ==
    /\ id \in cleared_ok
    /\ id \notin add_failed
    /\ \A c \in add_pending : c[1] # id

\* ---- the claims ---------------------------------------------------------

\* C1: after every handler, session_status is the fixed function of
\* (has_error, is_setup_available, is_setup_complete): ERROR if has_error, else
\* READY if is_setup_complete, else SETUP if is_setup_available, else STOPPED.
C1_StatusIsFunctionOfInputs ==
    session_status =
        IF has_error THEN SESSION_STATUS_ERROR
        ELSE IF is_setup_complete THEN SESSION_STATUS_READY
        ELSE IF is_setup_available THEN SESSION_STATUS_SETUP
        ELSE SESSION_STATUS_STOPPED

\* the daemon clears has-error during the setup: the status is recomputed
\* from ERROR to SETUP
C1_Witness ==
    /\ Handler = "notify::has-error"
    /\ ~has_error
    /\ is_setup_available
    /\ ~is_setup_complete
    /\ \E i \in DOMAIN log :
          /\ IsSet(log[i], "session_status")
          /\ log[i].old = SESSION_STATUS_ERROR
          /\ log[i].new = SESSION_STATUS_SETUP

\* C2: whenever has_error is true, session_status is ERROR, whatever the
\* setup flags are and whatever setup callback ran last.
C2_ErrorWhenHasError ==
    has_error => session_status = SESSION_STATUS_ERROR

\* the last cookie is added, which completes the setup, while has_error is true
C2_Witness ==
    /\ Handler = "on_webkit_add_cookie_ready"
    /\ has_error
    /\ is_cookie_manager_ready
    /\ is_kolibri_device_provisioned
    /\ is_setup_complete

\* C3: is_setup_complete is true iff is_cookie_manager_ready and
\* is_kolibri_device_provisioned are both true.
C3_SetupCompleteIffBoth ==
    is_setup_complete <=>
        (is_cookie_manager_ready /\ is_kolibri_device_provisioned)

\* an owner change takes the cookie flag away while the device stays
\* provisioned (no automatic login)
C3_Witness ==
    /\ Handler = "kolibri_daemon_on_dbus_owner_changed"
    /\ ~is_cookie_manager_ready
    /\ is_kolibri_device_provisioned
    /\ \E i \in DOMAIN log :
          /\ IsSet(log[i], "is_setup_complete")
          /\ log[i].old
          /\ ~log[i].new

\* C4: every kolibri-ready emission is made with session_status READY
\* (has_error false, is_setup_complete true), and every assignment that
\* changes session_status to READY is followed at once by an emission.
C4_KolibriReadyWithReady ==
    \A i \in DOMAIN log :
        /\ IsEmit(log[i], "kolibri-ready") =>
              /\ log[i].session_status = SESSION_STATUS_READY
              /\ ~log[i].has_error
              /\ log[i].is_setup_complete
        /\ (/\ IsSet(log[i], "session_status")
            /\ log[i].new = SESSION_STATUS_READY
            /\ log[i].old # SESSION_STATUS_READY) =>
              /\ i + 1 \in DOMAIN log
              /\ IsEmit(log[i + 1], "kolibri-ready")

\* session_status changes from SETUP to READY and the signal is emitted
C4_Witness ==
    \E i \in DOMAIN log :
        /\ IsSet(log[i], "session_status")
        /\ log[i].old = SESSION_STATUS_SETUP
        /\ log[i].new = SESSION_STATUS_READY
        /\ i + 1 \in DOMAIN log
        /\ IsEmit(log[i + 1], "kolibri-ready")

\* C5: an initialize request is issued only with the daemon started, the app
\* key set and is_auth_token_ready true, and it carries the auth_token
\* parameter exactly when the held login token is a non-empty string.
C5_InitializeWhenAllReady ==
    \A i \in DOMAIN log :
        log[i].ev = "initialize_request" =>
            /\ log[i].is_started
            /\ log[i].app_key # ""
            /\ log[i].is_auth_token_ready
            /\ log[i].auth_token_param <=>
                  (log[i].auth_token # None /\ log[i].auth_token # "")

\* a request issued while the empty login token is held: no parameter
C5_Witness ==
    \E i \in DOMAIN log :
        /\ log[i].ev = "initialize_request"
        /\ log[i].auth_token = ""
        /\ ~log[i].auth_token_param

\* C6: after a successful clear, is_cookie_manager_ready is set to true when,
\* and only when, every cookie of that response has been added with success,
\* for any set of response cookies (the empty one included).
C6_ReadyIffEveryCookieAdded ==
    Handler \in {"on_website_data_clear_finished",
                 "on_webkit_add_cookie_ready"} =>
        ((\E i \in DOMAIN log :
             /\ IsSet(log[i], "is_cookie_manager_ready")
             /\ log[i].new)
         <=> AllAdded(log[1].id))

\* C7: an initialize response sets is_setup_available first, then starts the
\* provisioning check, then requests the clear; a cookie of a response is
\* handed to add_cookie only by the successful end of that response's clear,
\* and never when that clear failed.
C7_ClearBeforeCookies ==
    /\ Handler = "on_kolibri_initialize_api_ready" =>
          \E c \in DOMAIN log :
              /\ IsSet(log[2], "is_setup_available")
              /\ log[2].new
              /\ 2 < c
              /\ log[c].ev = "check_is_kolibri_device_provisioned"
              /\ c < Len(log)
              /\ log[Len(log)].ev = "clear_request"
              /\ log[Len(log)].id = log[1].id
              /\ \A i \in DOMAIN log :
                    /\ log[i].ev = "deviceinfo_request" => i = c + 1
                    /\ log[i].ev = "clear_request" => i = Len(log)
    /\ \A i \in DOMAIN log :
          log[i].ev = "add_cookie" =>
              /\ Handler = "on_website_data_clear_finished"
              /\ log[1].ok
              /\ log[1].id = log[i].cookie[1]
    /\ \A c \in add_pending \cup cookies_to_add :
          c[1] \in cleared_ok /\ c[1] \notin clear_failed
    /\ add_failed \subseteq cleared_ok
    /\ cleared_ok \cap clear_failed = {}

\* the clear of one response failed, the clear of another succeeded and its
\* cookies are being added
C7_Witness ==
    /\ clear_failed # {}
    /\ add_pending # {}
    /\ \A c \in add_pending : c[1] \in cleared_ok

\* C8 as stated: any failure in the setup chain leaves session_status ERROR.
C8_FailureLeavesError ==
    (CookieFailure \/ DeviceInfoNotOk) =>
        session_status = SESSION_STATUS_ERROR

\* C8 as amended: a cookie clear or add error leaves session_status as it
\* was, a non-OK device-info response leaves it not READY, and in each case
\* session_status is ERROR afterwards exactly when has_error is true.
C8_FailureKeepsStatus ==
    /\ CookieFailure =>
          \A i \in DOMAIN log : ~IsSet(log[i], "session_status")
    /\ DeviceInfoNotOk => session_status # SESSION_STATUS_READY
    /\ (CookieFailure \/ DeviceInfoNotOk) =>
          (session_status = SESSION_STATUS_ERROR <=> has_error)

\* a non-OK device-info response arrives when the cookies are in place and
\* the daemon reports no error: the status is SETUP afterwards
C8_Witness ==
    /\ DeviceInfoNotOk
    /\ is_cookie_manager_ready
    /\ ~has_error
    /\ session_status = SESSION_STATUS_SETUP

\* C9: a device-info response with status >= 400 sets
\* is_kolibri_device_provisioned false (is_setup_complete false, status not
\* READY) and emits open-setup-wizard exactly once; one with status < 400
\* sets it true and emits no open-setup-wizard.
C9_DeviceInfoDecidesProvisioned ==
    Handler = "on_kolibri_device_info_api_ready" =>
        IF log[1].status >= BAD_REQUEST
        THEN /\ ~is_kolibri_device_provisioned
             /\ ~is_setup_complete
             /\ session_status # SESSION_STATUS_READY
             /\ Cardinality(Emissions("open-setup-wizard")) = 1
        ELSE /\ is_kolibri_device_provisioned
             /\ Emissions("open-setup-wizard") = {}

\* status 400 exactly, with the cookie flag already true
C9_Witness ==
    /\ Handler = "on_kolibri_device_info_api_ready"
    /\ log[1].status = BAD_REQUEST
    /\ is_cookie_manager_ready
    /\ Emissions("open-setup-wizard") # {}

\* C10 as stated: after a cookie-manager failure
\* is_kolibri_device_provisioned is false and open-setup-wizard is emitted.
C10_CookieFailureOpensWizard ==
    CookieFailure =>
        /\ ~is_kolibri_device_provisioned
        /\ Emissions("open-setup-wizard") # {}

\* C10 as amended: a cookie-manager failure is only logged: the callback
\* assigns no property (is_kolibri_device_provisioned stays as it was), emits
\* no signal and starts no request.
C10_CookieFailureOnlyLogged ==
    CookieFailure =>
        \A i \in DOMAIN log : i > 1 => log[i].ev = "error"

\* a cookie add fails while the device is provisioned
C10_Witness ==
    /\ Handler = "on_webkit_add_cookie_ready"
    /\ ~log[1].ok
    /\ is_kolibri_device_provisioned
    /\ Emissions("open-setup-wizard") = {}

\* a (re)start of the setup sequence: start_session_setup is called, by the
\* application or by the owner-change handler
IsRestart(fn) ==
    fn \in {"start_session_setup", "kolibri_daemon_on_dbus_owner_changed"}

\* C11: between two (re)starts of the setup sequence none of
\* is_auth_token_ready, is_setup_available, is_cookie_manager_ready,
\* is_kolibri_device_provisioned and is_setup_complete changes from true to
\* false.
C11_FlagsMonotonePerSession ==
    [][(Len(log') > 0 /\ ~IsRestart(log'[1].fn)) =>
          /\ is_auth_token_ready => is_auth_token_ready'
          /\ is_setup_available => is_setup_available'
          /\ is_cookie_manager_ready => is_cookie_manager_ready'
          /\ is_kolibri_device_provisioned => is_kolibri_device_provisioned'
          /\ is_setup_complete => is_setup_complete']_vars

\* the last handler asked the daemon for a login token
LoginRequested == \E i \in DOMAIN log : log[i].ev = "get_login_token"

\* C12 as stated: right after an owner change the auth token is unset, all
\* five flags are false and a new login token has been requested.
C12_OwnerChangeResetsAll ==
    Handler = "kolibri_daemon_on_dbus_owner_changed" =>
        /\ auth_token = None
        /\ ~is_auth_token_ready
        /\ ~is_cookie_manager_ready
        /\ ~is_kolibri_device_provisioned
        /\ ~is_setup_available
        /\ ~is_setup_complete
        /\ LoginRequested

\* C12 as amended: right after an owner change the auth token is unset and
\* is_cookie_manager_ready and is_setup_complete are false; with automatic
\* login the other three flags are false too and a login token has been
\* requested, without it they are true and no login token is requested.
C12_OwnerChangeRestarts ==
    Handler = "kolibri_daemon_on_dbus_owner_changed" =>
        /\ auth_token = None
        /\ ~is_cookie_manager_ready
        /\ ~is_setup_complete
        /\ IF do_automatic_login
           THEN /\ ~is_auth_token_ready
                /\ ~is_kolibri_device_provisioned
                /\ ~is_setup_available
                /\ LoginRequested
           ELSE /\ is_auth_token_ready
                /\ is_kolibri_device_provisioned
                /\ is_setup_available
                /\ ~LoginRequested

\* an owner change in a READY session with automatic login: the cookie flag
\* falls from true to false and a login token is requested
C12_Witness ==
    /\ Handler = "kolibri_daemon_on_dbus_owner_changed"
    /\ do_automatic_login
    /\ LoginRequested
    /\ \E i \in DOMAIN log :
          /\ IsSet(log[i], "session_status")
          /\ log[i].old = SESSION_STATUS_READY
          /\ log[i].new # SESSION_STATUS_READY

\* C13: is_cookie_manager_ready implies is_setup_available, and
\* is_setup_available implies is_auth_token_ready, in every state.
C13_FlagsInChainOrder ==
    /\ is_cookie_manager_ready => is_setup_available
    /\ is_setup_available => is_auth_token_ready

\* the last handler started a request or a cookie operation
StartedOperation ==
    \E i \in DOMAIN log :
        log[i].ev \in {"initialize_request", "deviceinfo_request",
                       "clear_request", "add_cookie", "get_login_token"}

\* C17: an attempt whose clear or cookie add failed never sets
\* is_cookie_manager_ready and starts nothing further; the failing callback
\* assigns no flag; is_cookie_manager_ready is set only by the last cookie of
\* another attempt, none of whose operations failed.
C17_FailedAttemptNeverReady ==
    /\ \A i \in DOMAIN log :
          (IsSet(log[i], "is_cookie_manager_ready") /\ log[i].new) =>
              /\ Handler = "on_webkit_add_cookie_ready"
              /\ log[1].ok
              /\ log[1].id \notin (clear_failed \cup add_failed)
    /\ \A i \in DOMAIN log :
          /\ log[i].ev = "add_cookie" =>
                log[i].cookie[1] \notin (clear_failed \cup add_failed)
          /\ log[i].ev = "clear_request" =>
                log[i].id \notin (clear_failed \cup add_failed)
    /\ CookieFailure =>
          /\ ~StartedOperation
          /\ \A i \in DOMAIN log : log[i].ev # "set"

\* a cookie of one attempt sets the flag after an add of another attempt failed
C17_Witness ==
    /\ Handler = "on_webkit_add_cookie_ready"
    /\ add_failed # {}
    /\ is_setup_available
    /\ \E i \in DOMAIN log :
          IsSet(log[i], "is_cookie_manager_ready") /\ log[i].new

\* the last handler assigned true to one of the flags that the setup chain
\* sets from a response
SetsChainFlag ==
    \E i \in DOMAIN log :
        /\ log[i].ev = "set"
        /\ log[i].prop \in {"is_cookie_manager_ready",
                            "is_kolibri_device_provisioned",
                            "is_setup_available"}
        /\ log[i].new = TRUE

\* C18: a completion that is delivered after an owner change and belongs to
\* an operation started before it sets none of is_cookie_manager_ready,
\* is_kolibri_device_provisioned and is_setup_available to true.  With
\* automatic login every initialize response, device-info response, clear
\* and cookie add delivered while the new login token is still awaited is
\* such a completion.
C18_StaleCompletionSetsNothing ==
    [][(/\ do_automatic_login
        /\ ~is_auth_token_ready
        /\ Len(log') > 0
        /\ log'[1].fn \in {"on_kolibri_initialize_api_ready",
                           "on_kolibri_device_info_api_ready",
                           "on_website_data_clear_finished",
                           "on_webkit_add_cookie_ready"})
       => ~SetsChainFlag']_vars

\* C20: a device-info request is issued only by an initialize response that
\* finds is_kolibri_device_provisioned false; without automatic login
\* start_session_setup sets auth-token-ready, setup-available and
\* device-provisioned true and requests no login token, and from then on no
\* device-info request is issued and open-setup-wizard is not emitted.
C20_ProvisionedSkipsDeviceInfo ==
    /\ \A i \in DOMAIN log :
          log[i].ev = "deviceinfo_request" =>
              /\ Handler = "on_kolibri_initialize_api_ready"
              /\ ~log[i].provisioned
    /\ ~do_automatic_login =>
          /\ Handler = "start_session_setup" =>
                /\ is_auth_token_ready
                /\ is_setup_available
                /\ is_kolibri_device_provisioned
          /\ is_auth_token_ready =>
                is_setup_available /\ is_kolibri_device_provisioned
          /\ ~LoginRequested
          /\ login_pending = 0
          /\ devinfo_pending = 0
          /\ \A i \in DOMAIN log : log[i].ev # "deviceinfo_request"
          /\ Emissions("open-setup-wizard") = {}

\* without automatic login an initialize response runs the provisioning
\* check and issues no device-info request
C20_Witness ==
    /\ ~do_automatic_login
    /\ Handler = "on_kolibri_initialize_api_ready"
    /\ \E i \in DOMAIN log : log[i].ev = "check_is_kolibri_device_provisioned"
    /\ \A i \in DOMAIN log : log[i].ev # "deviceinfo_request"
    /\ devinfo_pending = 0

\* C19: in a session without failures, once start_session_setup has been
\* called and the daemon is started with an app key, session_status
\* eventually becomes READY in a step that emits kolibri-ready, in either
\* login mode.
C19_EventuallyReady ==
    (/\ SetupCalled
     /\ is_started
     /\ app_key # ""
     /\ session_status # SESSION_STATUS_READY)
        ~> (/\ session_status = SESSION_STATUS_READY
            /\ Emissions("kolibri-ready") # {})

\* the session reached READY through the last cookie add, after a login token
\* was requested and delivered
C19_Witness ==
    /\ do_automatic_login
    /\ is_auth_token_ready
    /\ Handler = "on_webkit_add_cookie_ready"
    /\ session_status = SESSION_STATUS_READY
    /\ Emissions("kolibri-ready") # {}

\* ---- claims about URLs ---------------------------------------------------
\* the method fn was called and has returned: log[1] is the call, log[2]
\* the return
UrlCall(fn) ==
    /\ Len(log) = 2
    /\ log[1].fn = fn
    /\ log[2].ev = "return"

\* a Kolibri-app URL under the learn path: on the daemon's origin, for the
\* app, and matching the content pattern only
ContentUrl(call) ==
    LET url_path == lstrip(call.path, "/")
    IN  /\ is_url_for_kolibri_app(call.daemon_scope, call.path)
        /\ CONTENT_PATHS_RE(url_path)
        /\ ~STATIC_PATHS_RE(url_path)
        /\ ~SYSTEM_PATHS_RE(url_path)

\* the node id in the fragment of the URL, or None
FragmentNode(call) ==
    contentnode_id_for_learn_fragment(lstrip(call.fragment, "/"))

\* the channel_id the content API returns for the node of the URL, or None
ResolvedChannel(call) ==
    IF FragmentNode(call) # None /\ call.response.is_dict
    THEN call.response.channel_id
    ELSE None

\* the fragment is a search page or the content-unavailable page
UnrestrictedFragment(call) ==
    LET f == lstrip(call.fragment, "/")
    IN  startswith(f, "content-unavailable") \/ startswith(f, "search")

\* C14 as stated: in a channel context a content URL is in scope if and only
\* if the channel the content API returns for its node id equals the
\* configured channel.
C14_InScopeIffResolvedChannel ==
    (/\ UrlCall("is_url_in_scope")
     /\ channel_id # None
     /\ ContentUrl(log[1]))
        => (log[2].result <=> ResolvedChannel(log[1]) = channel_id)

\* C14 as amended: in a channel context a content URL is in scope if and
\* only if its fragment starts with content-unavailable or search, or the
\* node id in its fragment is the configured channel id itself, or the
\* content API returns a dict whose channel_id equals the configured
\* channel; the API is asked exactly when the fragment has a node id other
\* than the channel id and is not one of the two unrestricted pages.
C14_InScopeByFragment ==
    (/\ UrlCall("is_url_in_scope")
     /\ channel_id # None
     /\ ContentUrl(log[1]))
        => /\ log[2].result <=>
                \/ UnrestrictedFragment(log[1])
                \/ FragmentNode(log[1]) = channel_id
                \/ ResolvedChannel(log[1]) = channel_id
           /\ log[2].lookup <=>
                /\ ~UnrestrictedFragment(log[1])
                /\ FragmentNode(log[1]) # None
                /\ FragmentNode(log[1]) # channel_id

\* a content URL of a node other than the channel's own is in scope after the
\* content API returned the configured channel
C14_Witness ==
    /\ UrlCall("is_url_in_scope")
    /\ channel_id # None
    /\ ContentUrl(log[1])
    /\ FragmentNode(log[1]) \notin {None, channel_id}
    /\ log[2].lookup
    /\ log[2].result

\* C15: in a channel context a URL on the daemon's origin whose path matches
\* the static-assets pattern or the system pattern is in scope and no
\* content-API lookup is made; one that matches none of the three patterns
\* is out of scope.
C15_StaticAndSystemInScope ==
    (/\ UrlCall("is_url_in_scope")
     /\ channel_id # None
     /\ log[1].daemon_scope)
        => LET url_path == lstrip(log[1].path, "/")
           IN  /\ (STATIC_PATHS_RE(url_path) \/ SYSTEM_PATHS_RE(url_path))
                     => (log[2].result /\ ~log[2].lookup)
               /\ (/\ ~STATIC_PATHS_RE(url_path)
                   /\ ~SYSTEM_PATHS_RE(url_path)
                   /\ ~CONTENT_PATHS_RE(url_path))
                     => ~log[2].result

\* the query string that gives the search term
SearchQuery(term) == "search=" \o quote_plus(term)

\* the path has the form t/X or c/X for a node id X
NodeForm(url_path) ==
    /\ Len(url_path) > 2
    /\ startswith(url_path, "t/") \/ startswith(url_path, "c/")

\* C16: for a KolibriContext, kolibri:t/X?search=S yields the topic path of X
\* without a query, kolibri:c/X?search=S yields the content path of X with S
\* as its keywords parameter, and every other path form yields the library
\* view with S as keywords when a search term S is given and the home view
\* when the URL has no search parameter.
C16_KolibriUrlTranslation ==
    (UrlCall("parse_kolibri_url_tuple") /\ channel_id = None) =>
        LET url_path == lstrip(log[1].path, "/")
            result == log[2].result
        IN  /\ \A X \in NodeIds, S \in SearchTerms :
                  (url_path = "t/" \o X /\ log[1].query = SearchQuery(S)) =>
                      result = LEARN_PATH_PREFIX \o "topics/t/" \o X
            /\ \A X \in NodeIds, S \in SearchTerms :
                  (url_path = "c/" \o X /\ log[1].query = SearchQuery(S)) =>
                      /\ startswith(result,
                            LEARN_PATH_PREFIX \o "topics/c/" \o X \o "?")
                      /\ Contains(result, "keywords=" \o quote_plus(S))
            /\ \A S \in SearchTerms :
                  (~NodeForm(url_path) /\ log[1].query = SearchQuery(S)) =>
                      result = LEARN_PATH_PREFIX \o "library?keywords="
                                  \o quote_plus(S)
            /\ (~NodeForm(url_path) /\ log[1].query \in {"", "q=a"}) =>
                  result = LEARN_PATH_PREFIX \o "home"

\* C21: deciding whether a content URL is in the channel asks the content
\* API at most once, and only for a node id of the fragment that differs
\* from the channel id; a fragment that starts with content-unavailable or
\* search is in scope without a lookup, a fragment without a node id is out
\* of scope without a lookup, the channel's own node is in scope without a
\* lookup, and an answer that is not a dict makes the URL out of scope.
C21_AtMostOneLookup ==
    (/\ UrlCall("is_url_in_scope")
     /\ channel_id # None
     /\ ContentUrl(log[1]))
        => LET node == FragmentNode(log[1])
               free == UnrestrictedFragment(log[1])
               requests == log[2].requests
           IN  /\ Len(requests) <= 1
               /\ Len(requests) = 1 =>
                     /\ ~free
                     /\ node \notin {None, channel_id}
                     /\ requests[1] = node
               /\ free => (Len(requests) = 0 /\ log[2].result)
               /\ (~free /\ node = None) =>
                     (Len(requests) = 0 /\ ~log[2].result)
               /\ (~free /\ node = channel_id) =>
                     (Len(requests) = 0 /\ log[2].result)
               /\ (Len(requests) = 1 /\ ~log[1].response.is_dict) =>
                     ~log[2].result

\* the API was asked once for a node of another id, answered with something
\* that is not a dict, and the URL is out of scope
C21_Witness ==
    /\ UrlCall("is_url_in_scope")
    /\ channel_id # None
    /\ ContentUrl(log[1])
    /\ Len(log[2].requests) = 1
    /\ ~log[1].response.is_dict
    /\ ~log[2].result

\* the URL belongs to the Kolibri app: the daemon takes it for its own and
\* it is neither a static file nor a stored content file
KolibriAppUrl(call) ==
    is_url_for_kolibri_app(call.daemon_scope, urlsplit(call.url).path)

\* the x-kolibri-app: URL with the path, query and fragment of url and no
\* host or port
WithoutOrigin(url) ==
    LET parts == urlsplit(url)
    IN  "x-kolibri-app:" \o parts.path
            \o (IF parts.query # "" THEN "?" \o parts.query ELSE "")
            \o (IF parts.fragment # "" THEN "#" \o parts.fragment ELSE "")

\* C22: open_external_url of a KolibriContext emits open-external-url exactly
\* once and returns None, with the URL rewritten to x-kolibri-app: without
\* host and port for a Kolibri-app URL and with the URL as given otherwise;
\* in a channel context a Kolibri-app URL emits nothing and returns the
\* channel's default URL, and any other URL is emitted as given.
C22_OpenExternalUrl ==
    UrlCall("open_external_url") =>
        IF channel_id # None /\ KolibriAppUrl(log[1])
        THEN /\ log[2].emitted = <<>>
             /\ log[2].returned =
                    "x-kolibri-app:/learn/#/topics/t/" \o channel_id
        ELSE /\ Len(log[2].emitted) = 1
             /\ log[2].emitted[1].signal = "open-external-url"
             /\ log[2].returned = None
             /\ log[2].emitted[1].url =
                    IF KolibriAppUrl(log[1])
                    THEN WithoutOrigin(log[1].url)
                    ELSE log[1].url

\* a Kolibri-app URL with host, port and fragment was opened in a
\* KolibriContext and emitted without its origin
C22_Witness ==
    /\ UrlCall("open_external_url")
    /\ channel_id = None
    /\ KolibriAppUrl(log[1])
    /\ urlsplit(log[1].url).netloc = "h:8080"
    /\ urlsplit(log[1].url).fragment # ""
    /\ Len(log[2].emitted) = 1
    /\ startswith(log[2].emitted[1].url, "x-kolibri-app:/learn/")

====
